---- MODULE Spec2Model ----
(***************************************************************************)
(* ST7789V display driver (src/src/lib.rs): the engine that frames         *)
(* opcodes and parameters on the serial bus, sets address windows, maps    *)
(* logical to physical coordinates and streams pixel blocks.               *)
(*                                                                         *)
(* One call of a public operation is one action.  Inside a call the        *)
(* engine and the wires are threaded through the record m ("machine"):     *)
(* every primitive appends the event it produces to m.trace, and every     *)
(* primitive is skipped once m.err is set, which is Rust's `?`.            *)
(***************************************************************************)
EXTENDS Integers, Sequences, FiniteSets, TLC

VARIABLES
    phase,      \* "none" | "live" | "failed" | "released" | "panicked"
    has_cs,     \* cfg.cs is Some
    width,      \* self.width  (u16)
    height,     \* self.height (u16)
    rotate,     \* self.rotate
    cs,         \* last level driven on chip-select
    dc,         \* last level driven on data/command
    rst,        \* last level driven on reset
    call,       \* the last call: [op, args, data]
    trace,      \* pin, bus and delay events of the last call, in order
    result,     \* what the last call returned
    ret         \* the value returned by the last call, when it returns one

vars == <<phase, has_cs, width, height, rotate, cs, dc, rst, call, trace, result, ret>>

---------------------------------------------------------------------------
(* Bounds of the model *)

\* A call may have its k-th pin or bus operation fail, k in 1..MaxFail.
MaxFail == 1
\* pixels is called with up to MaxChunks full bus chunks of payload (+/- 1 color).
MaxChunks == 2
\* Small color sequences have up to MaxColors colors.
MaxColors == 3
\* A multi-step call may have its k-th pin or bus operation fail, k in 1..MaxDeepFail.
MaxDeepFail == 20

---------------------------------------------------------------------------
(* Program constants *)

Rotate0 == 0
Rotate90 == 90
Rotate180 == 180
Rotate270 == 270
Rotations == {Rotate0, Rotate90, Rotate180, Rotate270}

\* merged_data.chunks(4096)
ChunkSize == 4096

U16 == 65536

\* Command::value, the opcode byte of each command (command.rs; ST7789V datasheet)
cmd_value(cmd) ==
    CASE cmd = "SWRESET"    -> 1
      [] cmd = "SLPIN"      -> 16
      [] cmd = "SLPOUT"     -> 17
      [] cmd = "PTLON"      -> 18
      [] cmd = "NORON"      -> 19
      [] cmd = "INVOFF"     -> 32
      [] cmd = "INVON"      -> 33
      [] cmd = "DISPOFF"    -> 40
      [] cmd = "DISPON"     -> 41
      [] cmd = "CASET"      -> 42
      [] cmd = "RASET"      -> 43
      [] cmd = "RAMWR"      -> 44
      [] cmd = "MADCTL"     -> 54
      [] cmd = "IDMOFF"     -> 56
      [] cmd = "IDMON"      -> 57
      [] cmd = "COLMOD"     -> 58
      [] cmd = "PORCTRL"    -> 178
      [] cmd = "GCTRL"      -> 183
      [] cmd = "VCOMS"      -> 187
      [] cmd = "LCMCTRL"    -> 192
      [] cmd = "VDVVRHEN"   -> 194
      [] cmd = "VRHS"       -> 195
      [] cmd = "VDVS"       -> 196
      [] cmd = "FRCTRL2"    -> 198
      [] cmd = "PWCTRL1"    -> 208
      [] cmd = "UNKNOWN_D6" -> 214
      [] cmd = "E0"         -> 224
      [] cmd = "E1"         -> 225

---------------------------------------------------------------------------
(* Events on the wires *)

PinEv(pin, level, ok) ==
    [kind |-> "pin", pin |-> pin, level |-> level, site |-> "-", cmd |-> "-",
     bytes |-> <<>>, dc |-> "-", cs |-> "-", ms |-> 0, ok |-> ok]

\* A bus write; dc and cs are the levels last driven on the lines when it is made.
SpiEv(site, cmd, bytes, dclevel, cslevel, ok) ==
    [kind |-> "spi", pin |-> "-", level |-> "-", site |-> site, cmd |-> cmd,
     bytes |-> bytes, dc |-> dclevel, cs |-> cslevel, ms |-> 0, ok |-> ok]

DelayEv(ms) ==
    [kind |-> "delay", pin |-> "-", level |-> "-", site |-> "-", cmd |-> "-",
     bytes |-> <<>>, dc |-> "-", cs |-> "-", ms |-> ms, ok |-> TRUE]

---------------------------------------------------------------------------
(* The machine inside one call *)

\* The engine and its wires at the start of a call whose fuel-th pin or bus
\* operation fails (fuel = 0: none fails).
Enter(fuel) ==
    [has_cs |-> has_cs, width |-> width, height |-> height, rotate |-> rotate,
     cs |-> cs, dc |-> dc, rst |-> rst, trace |-> <<>>, err |-> "none", fuel |-> fuel]

Burn(m) == IF m.fuel = 0 THEN 0 ELSE m.fuel - 1

\* OutputPin::set_low / set_high followed by .map_err(Error::Pin)?
\* (a write that fails leaves the line at the level it had)
pin_write(m, pin, level) ==
    IF m.err # "none" THEN m
    ELSE IF m.fuel = 1
         THEN [m EXCEPT !.err = "Pin", !.fuel = 0,
                        !.trace = Append(@, PinEv(pin, level, FALSE))]
         ELSE [m EXCEPT ![pin] = level, !.fuel = Burn(m),
                        !.trace = Append(@, PinEv(pin, level, TRUE))]

\* if let Some(cs) = self.cfg.cs.as_mut() { cs.set_xxx().map_err(Error::Pin)?; }
cs_write(m, level) ==
    IF m.has_cs THEN pin_write(m, "cs", level) ELSE m

\* self.spi.write(bytes).map_err(Error::Spi)?
spi_write(m, site, cmd, bytes) ==
    IF m.err # "none" THEN m
    ELSE IF m.fuel = 1
         THEN [m EXCEPT !.err = "Spi", !.fuel = 0,
                        !.trace = Append(@, SpiEv(site, cmd, bytes, m.dc, m.cs, FALSE))]
         ELSE [m EXCEPT !.fuel = Burn(m),
                        !.trace = Append(@, SpiEv(site, cmd, bytes, m.dc, m.cs, TRUE))]

\* delay.delay_ms(ms): cannot fail; not reached after an error
delay_ms(m, ms) ==
    IF m.err # "none" THEN m
    ELSE [m EXCEPT !.trace = Append(@, DelayEv(ms))]

\* return Err(e)
fail_with(m, e) ==
    IF m.err # "none" THEN m ELSE [m EXCEPT !.err = e]

\* fn data(&mut self, data: &[u8])
data(m, bytes) == spi_write(m, "data", "-", bytes)

\* mutant of command: chip-select is not raised after the parameters
command_stays_selected(m, cmd, some, params) ==
    LET m1 == cs_write(m, "low")
        m2 == pin_write(m1, "dc", "low")
        m3 == spi_write(m2, "opcode", cmd, <<cmd_value(cmd)>>)
    IN  IF some
        THEN LET m4 == cs_write(m3, "low")
                 m5 == pin_write(m4, "dc", "high")
             IN  data(m5, params)
        ELSE m3

\* command that writes the opcode without driving data/command low first
command_dc_untouched(m, cmd, some, params) ==
    LET m1 == cs_write(m, "low")
        m3 == spi_write(m1, "opcode", cmd, <<cmd_value(cmd)>>)
    IN  IF some
        THEN LET m4 == cs_write(m3, "low")
                 m5 == pin_write(m4, "dc", "high")
                 m6 == data(m5, params)
             IN  cs_write(m6, "high")
        ELSE m3

\* command that relies on chip-select being low already
command_without_select(m, cmd, some, params) ==
    LET m2 == pin_write(m, "dc", "low")
        m3 == spi_write(m2, "opcode", cmd, <<cmd_value(cmd)>>)
    IN  IF some
        THEN LET m4 == cs_write(m3, "low")
                 m5 == pin_write(m4, "dc", "high")
                 m6 == data(m5, params)
             IN  cs_write(m6, "high")
        ELSE m3

\* fn command(&mut self, cmd, params: Option<&[u8]>); some = params.is_some()
command(m, cmd, some, params) ==
    LET m1 == cs_write(m, "low")
        m2 == pin_write(m1, "dc", "low")
        m3 == spi_write(m2, "opcode", cmd, <<cmd_value(cmd)>>)
    IN  IF some
        THEN LET m4 == cs_write(m3, "low")
                 m5 == pin_write(m4, "dc", "high")
                 m6 == data(m5, params)
             IN  cs_write(m6, "high")
        ELSE m3

---------------------------------------------------------------------------
(* Memory access control register (MADCTL) *)

RECURSIVE BitOr(_, _)
\* a | b on bytes
BitOr(a, b) ==
    IF a = 0 THEN b
    ELSE IF b = 0 THEN a
    ELSE (IF a % 2 = 1 \/ b % 2 = 1 THEN 1 ELSE 0) + 2 * BitOr(a \div 2, b \div 2)

\* field values with the latch order on the bit of the color order
field_value_latch_on_color_bit(field, v) ==
    CASE field = "page_order"        -> IF v = "BottomToTop" THEN 128 ELSE 0
      [] field = "column_order"      -> IF v = "LeftToRight" THEN 64 ELSE 0
      [] field = "page_column_order" -> IF v = "ReverseMode" THEN 32 ELSE 0
      [] field = "line_order"        -> IF v = "BottomToTop" THEN 16 ELSE 0
      [] field = "color_order"       -> IF v = "Bgr" THEN 8 ELSE 0
      [] field = "latch_order"       -> IF v = "RightToLeft" THEN 8 ELSE 0

\* PageAddressOrder .. LatchOrder: the byte of each field value
field_value(field, v) ==
    CASE field = "page_order"        -> IF v = "BottomToTop" THEN 128 ELSE 0
      [] field = "column_order"      -> IF v = "LeftToRight" THEN 64 ELSE 0
      [] field = "page_column_order" -> IF v = "ReverseMode" THEN 32 ELSE 0
      [] field = "line_order"        -> IF v = "BottomToTop" THEN 16 ELSE 0
      [] field = "color_order"       -> IF v = "Bgr" THEN 8 ELSE 0
      [] field = "latch_order"       -> IF v = "RightToLeft" THEN 4 ELSE 0

MemAccCtrlConfig_default ==
    [color_order |-> "Rgb", latch_order |-> "RightToLeft", line_order |-> "TopToBottom",
     page_order |-> "BottomToTop", page_column_order |-> "ReverseMode",
     column_order |-> "RightToLeft"]

rotate_0 ==
    [color_order |-> "Rgb", latch_order |-> "LeftToRight", line_order |-> "TopToBottom",
     page_order |-> "TopToBottom", page_column_order |-> "NormalMode",
     column_order |-> "RightToLeft"]

rotate_90 ==
    [color_order |-> "Rgb", latch_order |-> "LeftToRight", line_order |-> "TopToBottom",
     page_order |-> "BottomToTop", page_column_order |-> "NormalMode",
     column_order |-> "RightToLeft"]

rotate_180 ==
    [color_order |-> "Rgb", latch_order |-> "LeftToRight", line_order |-> "TopToBottom",
     page_order |-> "BottomToTop", page_column_order |-> "NormalMode",
     column_order |-> "LeftToRight"]

rotate_270 ==
    [color_order |-> "Rgb", latch_order |-> "LeftToRight", line_order |-> "TopToBottom",
     page_order |-> "TopToBottom", page_column_order |-> "NormalMode",
     column_order |-> "LeftToRight"]

\* MemAccCtrlConfig::value
MemAccCtrlConfig_value(c) ==
    BitOr(BitOr(BitOr(BitOr(BitOr(field_value("color_order", c.color_order),
                                  field_value("latch_order", c.latch_order)),
                            field_value("line_order", c.line_order)),
                      field_value("page_order", c.page_order)),
                field_value("page_column_order", c.page_column_order)),
          field_value("column_order", c.column_order))

---------------------------------------------------------------------------
(* Arithmetic of the address window and of the coordinate transform *)

\* u16::wrapping_sub
wrapping_sub(a, b) == (a - b) % U16

\* (v >> 8) as u8 and (v & 0xFF) as u8 of a u16
hi_byte(v) == v \div 256
lo_byte(v) == v % 256

\* mutant of to_be_bytes: low byte first
to_le_bytes(v) == <<v % 256, v \div 256>>

\* u16::to_be_bytes
to_be_bytes(v) == <<v \div 256, v % 256>>

\* mutant of range_bytes: the end is sent as given, not end - 1
range_bytes_no_decrement(s, e) ==
    <<hi_byte(s), lo_byte(s), hi_byte(e), lo_byte(e)>>

\* the four parameter bytes of column_address / row_address
range_bytes(s, e) ==
    <<hi_byte(s), lo_byte(s), hi_byte(wrapping_sub(e, 1)), lo_byte(wrapping_sub(e, 1))>>

\* mutant of transfer_x_y: the arms of Rotate90 and Rotate180 exchanged
transfer_x_y_arms_exchanged(m, x, y) ==
    CASE m.rotate = Rotate180 -> <<wrapping_sub(m.width, x), y>>
      [] m.rotate = Rotate90  -> <<x, wrapping_sub(m.height, y)>>
      [] m.rotate = Rotate270 -> <<wrapping_sub(m.width, x), wrapping_sub(m.height, y)>>
      [] OTHER                -> <<x, y>>

\* fn transfer_x_y(&self, x, y) -> (u16, u16)
transfer_x_y(m, x, y) ==
    CASE m.rotate = Rotate90  -> <<wrapping_sub(m.width, x), y>>
      [] m.rotate = Rotate180 -> <<x, wrapping_sub(m.height, y)>>
      [] m.rotate = Rotate270 -> <<wrapping_sub(m.width, x), wrapping_sub(m.height, y)>>
      [] OTHER                -> <<x, y>>

---------------------------------------------------------------------------
(* Operations, as functions of the machine *)

column_address(m, xs, xe) == command(m, "CASET", TRUE, range_bytes(xs, xe))

row_address(m, rs, re) == command(m, "RASET", TRUE, range_bytes(rs, re))

\* mutant of address_window: only the column range is validated
address_window_unchecked_rows(m, xs, rs, xe, re) ==
    IF m.err # "none" THEN m
    ELSE IF xs > xe
         THEN fail_with(m, "InvalidColumnAddress")
         ELSE command(row_address(column_address(m, xs, xe), rs, re), "RAMWR", FALSE, <<>>)

\* mutant of address_window: the row range is sent before the column range
address_window_rows_first(m, xs, rs, xe, re) ==
    IF m.err # "none" THEN m
    ELSE IF xs > xe \/ rs > re
         THEN fail_with(m, "InvalidColumnAddress")
         ELSE command(column_address(row_address(m, rs, re), xs, xe), "RAMWR", FALSE, <<>>)

address_window(m, xs, rs, xe, re) ==
    IF m.err # "none" THEN m
    ELSE IF xs > xe \/ rs > re
         THEN fail_with(m, "InvalidColumnAddress")
         ELSE command(row_address(column_address(m, xs, xe), rs, re), "RAMWR", FALSE, <<>>)

\* hard_reset with the two reset levels exchanged: the pulse ends low
hard_reset_ends_low(m) ==
    LET m1 == cs_write(m, "high")
        m2 == delay_ms(m1, 1)
        m3 == pin_write(m2, "rst", "high")
        m4 == delay_ms(m3, 1)
        m5 == pin_write(m4, "rst", "low")
    IN  delay_ms(m5, 120)

\* hard_reset that drops the result of the chip-select write instead of
\* returning it
hard_reset_unchecked_select(m) ==
    LET m1 == [cs_write(m, "high") EXCEPT !.err = "none"]
        m2 == delay_ms(m1, 1)
        m3 == pin_write(m2, "rst", "low")
        m4 == delay_ms(m3, 1)
        m5 == pin_write(m4, "rst", "high")
    IN  delay_ms(m5, 120)

hard_reset(m) ==
    LET m1 == cs_write(m, "high")
        m2 == delay_ms(m1, 1)
        m3 == pin_write(m2, "rst", "low")
        m4 == delay_ms(m3, 1)
        m5 == pin_write(m4, "rst", "high")
    IN  delay_ms(m5, 120)

soft_reset(m) == delay_ms(command(m, "SWRESET", FALSE, <<>>), 150)

mem_write(m, bytes) == command(m, "RAMWR", TRUE, bytes)

pixel(m, x, y, color) ==
    LET p == transfer_x_y(m, x, y)
        m1 == address_window(m, p[1], p[2], p[1], p[2])
    IN  mem_write(m1, to_be_bytes(color))

\* One link of init's call chain: .command(cmd, Some(bytes) | None) or .data(bytes)
Cmd(cmd, bytes) == [op |-> "command", cmd |-> cmd, some |-> TRUE, bytes |-> bytes]
CmdNone(cmd) == [op |-> "command", cmd |-> cmd, some |-> FALSE, bytes |-> <<>>]
Data(b) == [op |-> "data", cmd |-> "-", some |-> TRUE, bytes |-> <<b>>]

\* the chain of init after hard_reset, in the order of the source
init_chain ==
    << Cmd("MADCTL", <<0>>), Cmd("COLMOD", <<5>>), CmdNone("INVON"),
       CmdNone("CASET"), Data(0), Data(0), Data(1), Data(63),
       CmdNone("RASET"), Data(0), Data(0), Data(0), Data(51), Data(51),
       Cmd("GCTRL", <<53>>), Cmd("VCOMS", <<31>>), Cmd("LCMCTRL", <<44>>),
       Cmd("VDVVRHEN", <<1>>), Cmd("VRHS", <<18>>), Cmd("VDVS", <<32>>),
       Cmd("FRCTRL2", <<15>>),
       CmdNone("PWCTRL1"), Data(164), Data(161),
       CmdNone("E0"), Data(208), Data(8), Data(17), Data(8), Data(12), Data(21),
       Data(57), Data(51), Data(80), Data(54), Data(19), Data(20), Data(41), Data(45),
       CmdNone("E1"), Data(208), Data(8), Data(16), Data(8), Data(6), Data(6),
       Data(57), Data(68), Data(81), Data(11), Data(22), Data(20), Data(47), Data(49),
       CmdNone("INVON"), CmdNone("SLPOUT"), CmdNone("DISPON") >>

RECURSIVE run_chain(_, _, _)
\* links i.. of a chain, each followed by `?`
run_chain(m, chain, i) ==
    IF i > Len(chain) \/ m.err # "none" THEN m
    ELSE LET l == chain[i]
         IN  run_chain(IF l.op = "command" THEN command(m, l.cmd, l.some, l.bytes)
                       ELSE data(m, l.bytes),
                       chain, i + 1)

\* init that starts the chain at once and pulses reset afterwards
init_reset_last(m) == hard_reset(run_chain(m, init_chain, 1))

init(m) == run_chain(hard_reset(m), init_chain, 1)

\* set_rotate with the register writes that the source has commented out
set_rotate_reissuing(m, r) ==
    LET config == CASE r = Rotate270 -> rotate_270
                    [] r = Rotate180 -> rotate_180
                    [] r = Rotate90  -> rotate_90
                    [] OTHER         -> rotate_0
        m1 == command(m, "MADCTL", TRUE, <<MemAccCtrlConfig_value(config)>>)
    IN  IF m1.err # "none" THEN m1 ELSE [m1 EXCEPT !.rotate = r]

set_rotate(m, r) == [m EXCEPT !.rotate = r]

color_mode(m, format) == delay_ms(command(m, "COLMOD", TRUE, <<format>>), 10)

porch_setting(m) == command(m, "PORCTRL", TRUE, <<12, 12, 0, 51, 51>>)

gate_control(m) == command(m, "GCTRL", TRUE, <<53>>)

vcoms_setting(m) == command(m, "VCOMS", TRUE, <<53>>)

lcm_control(m) ==
    run_chain(m, << Cmd("LCMCTRL", <<44>>), Cmd("VDVVRHEN", <<1>>), Cmd("VRHS", <<19>>),
                    Cmd("VDVS", <<32>>), Cmd("FRCTRL2", <<15>>),
                    Cmd("PWCTRL1", <<164, 161>>), Cmd("UNKNOWN_D6", <<161>>) >>, 1)

\* sleep_in that waits whether or not the command went through
sleep_in_always_settling(m) ==
    [command(m, "SLPIN", FALSE, <<>>) EXCEPT !.trace = Append(@, DelayEv(5))]

sleep_in(m) == delay_ms(command(m, "SLPIN", FALSE, <<>>), 5)

sleep_out(m) == delay_ms(command(m, "SLPOUT", FALSE, <<>>), 120)

partial_display_mode(m) == command(m, "PTLON", FALSE, <<>>)

normal_mode(m) == command(m, "NORON", FALSE, <<>>)

inversion_off(m) == command(m, "INVOFF", FALSE, <<>>)

inversion_on(m) == command(m, "INVON", FALSE, <<>>)

display_off(m) == command(m, "DISPOFF", FALSE, <<>>)

display_on(m) == command(m, "DISPON", FALSE, <<>>)

memory_access_control(m, config) ==
    command(m, "MADCTL", TRUE, <<MemAccCtrlConfig_value(config)>>)

idle_off(m) == command(m, "IDMOFF", FALSE, <<>>)

idle_on(m) == command(m, "IDMON", FALSE, <<>>)

---------------------------------------------------------------------------
(* Pixel streaming *)

Min(a, b) == IF a < b THEN a ELSE b

\* colors.map(|x| x.to_be_bytes()).flatten().collect()
colors_vec(colors) ==
    [j \in 1..(2 * Len(colors)) |->
        to_be_bytes(colors[(j + 1) \div 2])[IF j % 2 = 1 THEN 1 ELSE 2]]

\* the pieces of n elements of a slice of len elements
chunks_of(s, len, n) ==
    [k \in 1..((len + n - 1) \div n) |-> SubSeq(s, (k - 1) * n + 1, Min(k * n, len))]

\* slice.chunks(n), n > 0: consecutive pieces of n elements, the last one shorter
chunks(s, n) == chunks_of(s, Len(s), n)

\* the len elements of ss, last first
rev_of(ss, len) == [k \in 1..len |-> ss[len + 1 - k]]

\* .rev()
rev(ss) == rev_of(ss, Len(ss))

RECURSIVE concat_range(_, _, _)
\* ss[lo] \o ... \o ss[hi]
concat_range(ss, lo, hi) ==
    IF lo > hi THEN <<>>
    ELSE IF lo = hi THEN ss[lo]
    ELSE LET mid == (lo + hi) \div 2
         IN  concat_range(ss, lo, mid) \o concat_range(ss, mid + 1, hi)

\* .concat()
concat(ss) == concat_range(ss, 1, Len(ss))

RECURSIVE write_chunks(_, _, _)
\* for chunk in merged_data.chunks(4096) { self.data(&chunk)?; }
write_chunks(m, cks, i) ==
    IF i > Len(cks) \/ m.err # "none" THEN m
    ELSE write_chunks(data(m, cks[i]), cks, i + 1)

\* (self.width * self.width) as usize, in u16: with overflow checks the product
\* panics when it does not fit, without them it wraps; -1 stands for the panic
block_len(m, overflow_checks) ==
    IF m.width * m.width >= U16 /\ overflow_checks THEN -1
    ELSE (m.width * m.width) % U16

\* pixels that streams the payload without selecting the chip and raising
\* data/command again
pixels_unselected(m, xs, ys, xe, ye, colors, overflow_checks) ==
    LET start == transfer_x_y(m, xs, ys)
        end == transfer_x_y(m, xe, ye)
        min_x == IF start[1] > end[1] THEN end[1] ELSE start[1]
        max_x == IF start[1] > end[1] THEN start[1] ELSE end[1]
        min_y == IF start[2] > end[2] THEN end[2] ELSE start[2]
        max_y == IF start[2] > end[2] THEN start[2] ELSE end[2]
        m1 == address_window(m, min_x, min_y, max_x, max_y)
        m2 == mem_write(m1, <<>>)
        pixel_slice == colors_vec(colors)
        n == block_len(m, overflow_checks)
    IN  IF m2.err # "none" THEN m2
        ELSE IF n <= 0 THEN fail_with(m2, "panic")
        ELSE LET merged_data == concat(rev(chunks(pixel_slice, n)))
                 m5 == write_chunks(m2, chunks(merged_data, ChunkSize), 1)
             IN  cs_write(m5, "high")

\* pixels that passes the transformed corners on as they are
pixels_unnormalized(m, xs, ys, xe, ye, colors, overflow_checks) ==
    LET start == transfer_x_y(m, xs, ys)
        end == transfer_x_y(m, xe, ye)
        m1 == address_window(m, start[1], start[2], end[1], end[2])
        m2 == mem_write(m1, <<>>)
        m3 == cs_write(m2, "low")
        m4 == pin_write(m3, "dc", "high")
        pixel_slice == colors_vec(colors)
        n == block_len(m, overflow_checks)
    IN  IF m4.err # "none" THEN m4
        ELSE IF n <= 0 THEN fail_with(m4, "panic")
        ELSE LET merged_data == concat(rev(chunks(pixel_slice, n)))
                 m5 == write_chunks(m4, chunks(merged_data, ChunkSize), 1)
             IN  cs_write(m5, "high")

pixels(m, xs, ys, xe, ye, colors, overflow_checks) ==
    LET start == transfer_x_y(m, xs, ys)
        end == transfer_x_y(m, xe, ye)
        min_x == IF start[1] > end[1] THEN end[1] ELSE start[1]
        max_x == IF start[1] > end[1] THEN start[1] ELSE end[1]
        min_y == IF start[2] > end[2] THEN end[2] ELSE start[2]
        max_y == IF start[2] > end[2] THEN start[2] ELSE end[2]
        m1 == address_window(m, min_x, min_y, max_x, max_y)
        m2 == mem_write(m1, <<>>)
        m3 == cs_write(m2, "low")
        m4 == pin_write(m3, "dc", "high")
        pixel_slice == colors_vec(colors)
        n == block_len(m, overflow_checks)
    IN  IF m4.err # "none" THEN m4
        ELSE IF n <= 0 THEN fail_with(m4, "panic")   \* overflow, or chunks(0)
        ELSE LET merged_data == concat(rev(chunks(pixel_slice, n)))
                 m5 == write_chunks(m4, chunks(merged_data, ChunkSize), 1)
             IN  cs_write(m5, "high")

---------------------------------------------------------------------------
(* Inputs of the calls *)

Fuels == 0..MaxFail

\* (width, height) of the panels an engine is constructed for
Dims == {<<2, 3>>, <<240, 320>>, <<256, 256>>}

\* (start, end) of column_address and row_address
Ranges == {<<0, 0>>, <<0, 240>>, <<1, 0>>, <<300, 320>>}

\* (xs, rs, xe, re) of address_window
Windows ==
    {<<0, 0, 240, 320>>, <<0, 0, 0, 0>>, <<1, 300, 240, 320>>, <<0, 0, 1, 1>>,
     <<1, 0, 0, 320>>, <<0, 1, 240, 0>>, <<1, 1, 0, 0>>, <<300, 0, 240, 320>>}

Corners == {<<0, 0>>, <<1, 2>>}
\* (xs, ys, xe, ye) of pixels
CornerPairs == {<<0, 0, 1, 2>>, <<1, 2, 0, 0>>}

\* the builds: whether u16 multiplication checks for overflow (it matters only
\* when width * width does not fit)
Builds == IF width * width >= U16 THEN BOOLEAN ELSE {FALSE}
PointXs == {0, 1, 239}
PointYs == {0, 2, 319}
PixelColors == {63488, 2016}
ColorFormats == {5, 85}
Presets == {MemAccCtrlConfig_default, rotate_180}
ByteSeqs == {<<>>, <<248, 0>>}

\* a sequence of n distinct colors, the first one pure red (0xF800)
TestColors(n) == [i \in 1..n |-> (63488 + (i - 1) * 2065) % U16]

\* numbers of colors that fill whole bus chunks, and one color more
StreamCounts == {k * (ChunkSize \div 2) + d : k \in 0..MaxChunks, d \in {0, 1}}

NoArgs == <<>>

---------------------------------------------------------------------------
(* The state machine *)

Init ==
    /\ phase = "none"
    /\ has_cs = FALSE
    /\ width = 0
    /\ height = 0
    /\ rotate = Rotate0
    /\ cs = "unknown"
    /\ dc = "unknown"
    /\ rst = "unknown"
    /\ call = [op |-> "-", args |-> <<>>, data |-> <<>>]
    /\ trace = <<>>
    /\ result = "none"
    /\ ret = <<>>

\* the call returns: what it leaves in the engine and on the wires
Leave(m, op, args, dat, rv) ==
    /\ phase' = IF m.err = "panic" THEN "panicked" ELSE "live"
    /\ rotate' = m.rotate
    /\ cs' = m.cs
    /\ dc' = m.dc
    /\ rst' = m.rst
    /\ call' = [op |-> op, args |-> args, data |-> dat]
    /\ trace' = m.trace
    /\ result' = IF m.err = "none" THEN "Ok" ELSE m.err
    /\ ret' = rv
    /\ UNCHANGED <<has_cs, width, height>>

\* release that drives chip-select low, as the constructors do
release_selects(m) == cs_write(m, "low")

\* fn release(mut self): the pin write of release
release(m) == cs_write(m, "high")

\* Ok((self.spi, self.cfg)): the bus handle and the configuration with its pins
released_parts(m) ==
    [spi |-> "spi",
     cfg |-> [cs |-> IF m.has_cs THEN "cs" ELSE "None", dc |-> "dc", rst |-> "rst"]]

\* ST7789VConfig::release(self) -> (DC, RST)
ST7789VConfig_release(cfg) == <<cfg.dc, cfg.rst>>

\* a constructor that yields the engine whether or not the select write failed
Construct_ignoring_error(m, op, w, h) ==
    /\ phase' = "live"
    /\ has_cs' = m.has_cs
    /\ width' = w
    /\ height' = h
    /\ rotate' = Rotate0
    /\ cs' = m.cs
    /\ dc' = m.dc
    /\ rst' = m.rst
    /\ call' = [op |-> op, args |-> <<w, h>>, data |-> <<>>]
    /\ trace' = m.trace
    /\ result' = "Ok"
    /\ ret' = <<>>

\* a constructor returns: Ok(engine) or Err(Pin)
Construct(m, op, w, h) ==
    /\ phase' = IF m.err = "none" THEN "live" ELSE "failed"
    /\ has_cs' = m.has_cs
    /\ width' = w
    /\ height' = h
    /\ rotate' = Rotate0
    /\ cs' = m.cs
    /\ dc' = m.dc
    /\ rst' = m.rst
    /\ call' = [op |-> op, args |-> <<w, h>>, data |-> <<>>]
    /\ trace' = m.trace
    /\ result' = IF m.err = "none" THEN "Ok" ELSE m.err
    /\ ret' = <<>>

Call_new ==
    /\ phase = "none"
    /\ \E d \in Dims :
         Construct([Enter(0) EXCEPT !.has_cs = FALSE], "new", d[1], d[2])

Call_with_cs ==
    /\ phase = "none"
    /\ \E d \in Dims, f \in Fuels :
         Construct(pin_write([Enter(f) EXCEPT !.has_cs = TRUE], "cs", "low"),
                   "with_cs", d[1], d[2])

Call_with_config ==
    /\ phase = "none"
    /\ \E d \in Dims, f \in Fuels, some_cs \in BOOLEAN :
         Construct(cs_write([Enter(f) EXCEPT !.has_cs = some_cs], "low"),
                   "with_config", d[1], d[2])

Call_release ==
    /\ phase = "live"
    /\ \E f \in Fuels :
         LET m == release(Enter(f))
         IN  /\ phase' = "released"
             /\ cs' = m.cs
             /\ dc' = m.dc
             /\ rst' = m.rst
             /\ call' = [op |-> "release", args |-> <<>>, data |-> <<>>]
             /\ trace' = m.trace
             /\ result' = IF m.err = "none" THEN "Ok" ELSE m.err
             /\ ret' = IF m.err = "none" THEN released_parts(m) ELSE <<>>
             /\ UNCHANGED <<has_cs, width, height, rotate>>

Call_init ==
    /\ phase = "live"
    /\ \E f \in Fuels : Leave(init(Enter(f)), "init", NoArgs, <<>>, <<>>)

Call_set_rotate ==
    /\ phase = "live"
    /\ \E r \in Rotations : Leave(set_rotate(Enter(0), r), "set_rotate", <<r>>, <<>>, <<>>)

Call_color_mode ==
    /\ phase = "live"
    /\ \E f \in Fuels, c \in ColorFormats :
         Leave(color_mode(Enter(f), c), "color_mode", <<c>>, <<>>, <<>>)

Call_porch_setting ==
    /\ phase = "live"
    /\ \E f \in Fuels : Leave(porch_setting(Enter(f)), "porch_setting", NoArgs, <<>>, <<>>)

Call_gate_control ==
    /\ phase = "live"
    /\ \E f \in Fuels : Leave(gate_control(Enter(f)), "gate_control", NoArgs, <<>>, <<>>)

Call_vcoms_setting ==
    /\ phase = "live"
    /\ \E f \in Fuels : Leave(vcoms_setting(Enter(f)), "vcoms_setting", NoArgs, <<>>, <<>>)

Call_lcm_control ==
    /\ phase = "live"
    /\ \E f \in Fuels : Leave(lcm_control(Enter(f)), "lcm_control", NoArgs, <<>>, <<>>)

Call_sleep_in ==
    /\ phase = "live"
    /\ \E f \in Fuels : Leave(sleep_in(Enter(f)), "sleep_in", NoArgs, <<>>, <<>>)

Call_sleep_out ==
    /\ phase = "live"
    /\ \E f \in Fuels : Leave(sleep_out(Enter(f)), "sleep_out", NoArgs, <<>>, <<>>)

Call_partial_display_mode ==
    /\ phase = "live"
    /\ \E f \in Fuels :
         Leave(partial_display_mode(Enter(f)), "partial_display_mode", NoArgs, <<>>, <<>>)

Call_normal_mode ==
    /\ phase = "live"
    /\ \E f \in Fuels : Leave(normal_mode(Enter(f)), "normal_mode", NoArgs, <<>>, <<>>)

Call_inversion_off ==
    /\ phase = "live"
    /\ \E f \in Fuels : Leave(inversion_off(Enter(f)), "inversion_off", NoArgs, <<>>, <<>>)

Call_inversion_on ==
    /\ phase = "live"
    /\ \E f \in Fuels : Leave(inversion_on(Enter(f)), "inversion_on", NoArgs, <<>>, <<>>)

Call_display_off ==
    /\ phase = "live"
    /\ \E f \in Fuels : Leave(display_off(Enter(f)), "display_off", NoArgs, <<>>, <<>>)

Call_display_on ==
    /\ phase = "live"
    /\ \E f \in Fuels : Leave(display_on(Enter(f)), "display_on", NoArgs, <<>>, <<>>)

Call_memory_access_control ==
    /\ phase = "live"
    /\ \E f \in Fuels, c \in Presets :
         Leave(memory_access_control(Enter(f), c), "memory_access_control",
               <<MemAccCtrlConfig_value(c)>>, <<>>, <<>>)

Call_idle_off ==
    /\ phase = "live"
    /\ \E f \in Fuels : Leave(idle_off(Enter(f)), "idle_off", NoArgs, <<>>, <<>>)

Call_idle_on ==
    /\ phase = "live"
    /\ \E f \in Fuels : Leave(idle_on(Enter(f)), "idle_on", NoArgs, <<>>, <<>>)

Call_column_address ==
    /\ phase = "live"
    /\ \E f \in Fuels, r \in Ranges :
         Leave(column_address(Enter(f), r[1], r[2]), "column_address", r, <<>>, <<>>)

Call_row_address ==
    /\ phase = "live"
    /\ \E f \in Fuels, r \in Ranges :
         Leave(row_address(Enter(f), r[1], r[2]), "row_address", r, <<>>, <<>>)

Call_address_window ==
    /\ phase = "live"
    /\ \E f \in Fuels, w \in Windows :
         Leave(address_window(Enter(f), w[1], w[2], w[3], w[4]), "address_window",
               w, <<>>, <<>>)

Call_hard_reset ==
    /\ phase = "live"
    /\ \E f \in Fuels : Leave(hard_reset(Enter(f)), "hard_reset", NoArgs, <<>>, <<>>)

Call_soft_reset ==
    /\ phase = "live"
    /\ \E f \in Fuels : Leave(soft_reset(Enter(f)), "soft_reset", NoArgs, <<>>, <<>>)

\* the private transform, applied on its own: it reads the engine and changes nothing
Call_transfer_x_y ==
    /\ phase = "live"
    /\ \E x \in PointXs, y \in PointYs :
         Leave(Enter(0), "transfer_x_y", <<x, y>>, <<>>, transfer_x_y(Enter(0), x, y))

Call_mem_write ==
    /\ phase = "live"
    /\ \E f \in Fuels, b \in ByteSeqs :
         Leave(mem_write(Enter(f), b), "mem_write", NoArgs, b, <<>>)

Call_pixel ==
    /\ phase = "live"
    /\ \E f \in Fuels, p \in Corners, c \in PixelColors :
         Leave(pixel(Enter(f), p[1], p[2], c), "pixel", <<p[1], p[2], c>>, <<>>, <<>>)

Call_pixels ==
    /\ phase = "live"
    /\ \E f \in Fuels, w \in CornerPairs, n \in 0..MaxColors, overflow_checks \in Builds :
         Leave(pixels(Enter(f), w[1], w[2], w[3], w[4], TestColors(n), overflow_checks),
               "pixels", w, TestColors(n), <<>>)

\* pixels with payloads of whole bus chunks
Call_pixels_stream ==
    /\ phase = "live"
    /\ \E n \in StreamCounts, overflow_checks \in Builds :
         LET w == <<0, 0, 1, 2>>
             colors == TestColors(n)
             m == pixels(Enter(0), w[1], w[2], w[3], w[4], colors, overflow_checks)
         IN  Leave(m, "pixels", w, colors, <<>>)

Next ==
    \/ Call_new
    \/ Call_with_cs
    \/ Call_with_config
    \/ Call_release
    \/ Call_init
    \/ Call_set_rotate
    \/ Call_color_mode
    \/ Call_porch_setting
    \/ Call_gate_control
    \/ Call_vcoms_setting
    \/ Call_lcm_control
    \/ Call_sleep_in
    \/ Call_sleep_out
    \/ Call_partial_display_mode
    \/ Call_normal_mode
    \/ Call_inversion_off
    \/ Call_inversion_on
    \/ Call_display_off
    \/ Call_display_on
    \/ Call_memory_access_control
    \/ Call_idle_off
    \/ Call_idle_on
    \/ Call_column_address
    \/ Call_row_address
    \/ Call_address_window
    \/ Call_hard_reset
    \/ Call_soft_reset
    \/ Call_transfer_x_y
    \/ Call_mem_write
    \/ Call_pixel
    \/ Call_pixels

Spec == Init /\ [][Next]_vars

\* construction, rotation and block writes of whole chunks
NextStream ==
    \/ Call_new
    \/ Call_with_cs
    \/ Call_set_rotate
    \/ Call_pixels_stream
    \/ Call_release

SpecStream == Init /\ [][NextStream]_vars

\* The multi-step operations, with the failure at any of their first
\* MaxDeepFail pin or bus operations
DeepFuels == 0..MaxDeepFail

Fail_hard_reset ==
    /\ phase = "live"
    /\ \E f \in DeepFuels : Leave(hard_reset(Enter(f)), "hard_reset", NoArgs, <<>>, <<>>)

Fail_init ==
    /\ phase = "live"
    /\ \E f \in DeepFuels : Leave(init(Enter(f)), "init", NoArgs, <<>>, <<>>)

Fail_address_window ==
    /\ phase = "live"
    /\ \E f \in DeepFuels :
         LET w == <<0, 0, 240, 320>>
         IN  Leave(address_window(Enter(f), w[1], w[2], w[3], w[4]), "address_window",
                   w, <<>>, <<>>)

Fail_pixel ==
    /\ phase = "live"
    /\ \E f \in DeepFuels :
         Leave(pixel(Enter(f), 1, 2, 63488), "pixel", <<1, 2, 63488>>, <<>>, <<>>)

Fail_pixels ==
    /\ phase = "live"
    /\ \E f \in DeepFuels, overflow_checks \in Builds :
         LET w == <<0, 0, 1, 2>>
         IN  Leave(pixels(Enter(f), w[1], w[2], w[3], w[4], TestColors(2), overflow_checks),
                   "pixels", w, TestColors(2), <<>>)

Fail_lcm_control ==
    /\ phase = "live"
    /\ \E f \in DeepFuels : Leave(lcm_control(Enter(f)), "lcm_control", NoArgs, <<>>, <<>>)

Fail_sleep_in ==
    /\ phase = "live"
    /\ \E f \in DeepFuels : Leave(sleep_in(Enter(f)), "sleep_in", NoArgs, <<>>, <<>>)

Fail_sleep_out ==
    /\ phase = "live"
    /\ \E f \in DeepFuels : Leave(sleep_out(Enter(f)), "sleep_out", NoArgs, <<>>, <<>>)

\* a command with parameters
Fail_mem_write ==
    /\ phase = "live"
    /\ \E f \in DeepFuels :
         Leave(mem_write(Enter(f), <<248, 0>>), "mem_write", NoArgs, <<248, 0>>, <<>>)

NextFail ==
    \/ Call_new
    \/ Call_with_cs
    \/ Fail_hard_reset
    \/ Fail_init
    \/ Fail_address_window
    \/ Fail_pixel
    \/ Fail_pixels
    \/ Fail_lcm_control
    \/ Fail_sleep_in
    \/ Fail_sleep_out
    \/ Fail_mem_write

SpecFail == Init /\ [][NextFail]_vars

\* pixels with corners at the ends of the 16-bit range, in either order
CornerValues == {0, 240, U16 - 1}

Window_pixels ==
    /\ phase = "live"
    /\ \E f \in Fuels, xs \in CornerValues, ys \in CornerValues, xe \in CornerValues,
          ye \in CornerValues, overflow_checks \in Builds :
         Leave(pixels(Enter(f), xs, ys, xe, ye, TestColors(1), overflow_checks),
               "pixels", <<xs, ys, xe, ye>>, TestColors(1), <<>>)

NextWindow ==
    \/ Call_new
    \/ Call_with_cs
    \/ Call_set_rotate
    \/ Window_pixels

SpecWindow == Init /\ [][NextWindow]_vars

---------------------------------------------------------------------------
(* Building a MemAccCtrlConfig and taking its byte; ret holds the config that
   the last builder call returned *)

ConfigOps ==
    {"default", "rotate_0", "rotate_90", "rotate_180", "rotate_270", "color_order",
     "latch_order", "line_order", "page_order", "page_column_order", "column_order"}

\* the variants of each field's enum
Variants(field) ==
    CASE field = "color_order"       -> {"Rgb", "Bgr"}
      [] field = "latch_order"       -> {"LeftToRight", "RightToLeft"}
      [] field = "line_order"        -> {"TopToBottom", "BottomToTop"}
      [] field = "page_order"        -> {"TopToBottom", "BottomToTop"}
      [] field = "page_column_order" -> {"NormalMode", "ReverseMode"}
      [] field = "column_order"      -> {"RightToLeft", "LeftToRight"}

\* a call on the configuration: no engine, no wire is involved
Config(op, args, rv) ==
    /\ call' = [op |-> op, args |-> args, data |-> <<>>]
    /\ ret' = rv
    /\ UNCHANGED <<phase, has_cs, width, height, rotate, cs, dc, rst, trace, result>>

\* a builder method: self.field = v; self
Setter(field) ==
    /\ call.op \in ConfigOps
    /\ \E v \in Variants(field) : Config(field, <<v>>, [ret EXCEPT ![field] = v])

Cfg_default == Config("default", <<>>, MemAccCtrlConfig_default)

Cfg_rotate_0 == Config("rotate_0", <<>>, rotate_0)

Cfg_rotate_90 == Config("rotate_90", <<>>, rotate_90)

Cfg_rotate_180 == Config("rotate_180", <<>>, rotate_180)

Cfg_rotate_270 == Config("rotate_270", <<>>, rotate_270)

Cfg_color_order == Setter("color_order")

Cfg_latch_order == Setter("latch_order")

Cfg_line_order == Setter("line_order")

Cfg_page_order == Setter("page_order")

Cfg_page_column_order == Setter("page_column_order")

Cfg_column_order == Setter("column_order")

\* value(self) -> u8: takes the configuration
Cfg_value ==
    /\ call.op \in ConfigOps
    /\ Config("value", <<ret>>, <<MemAccCtrlConfig_value(ret)>>)

NextConfig ==
    \/ Cfg_default
    \/ Cfg_rotate_0
    \/ Cfg_rotate_90
    \/ Cfg_rotate_180
    \/ Cfg_rotate_270
    \/ Cfg_color_order
    \/ Cfg_latch_order
    \/ Cfg_line_order
    \/ Cfg_page_order
    \/ Cfg_page_column_order
    \/ Cfg_column_order
    \/ Cfg_value

SpecConfig == Init /\ [][NextConfig]_vars

---------------------------------------------------------------------------
(* What the properties read off a call *)

\* the bus writes of a trace, in order
BusWrites(tr) == SelectSeq(tr, LAMBDA e : e.kind = "spi")

\* the two bytes of a 16-bit word, high byte first
WordBytes(v) == <<v \div 256, v % 256>>

\* the wire bytes of the half-open range [s, e): s, then e - 1 as a 16-bit word
ExpectedRange(s, e) == WordBytes(s) \o WordBytes(IF e = 0 THEN U16 - 1 ELSE e - 1)

\* the physical coordinate of a logical one, by exact integer arithmetic
ExpectedTransform(r, w, h, x, y) ==
    <<IF r \in {Rotate90, Rotate270} THEN w - x ELSE x,
      IF r \in {Rotate180, Rotate270} THEN h - y ELSE y>>

IsOpcodeWrite(e, cmd) ==
    e.kind = "spi" /\ e.site = "opcode" /\ e.cmd = cmd /\ e.bytes = <<cmd_value(cmd)>>

IsDataWrite(e, bytes) ==
    e.kind = "spi" /\ e.site = "data" /\ e.bytes = bytes

Called(op) == call.op = op /\ phase \in {"live", "panicked"}

---------------------------------------------------------------------------
(* C1 *)

\* C1: for start <= end, a successful column_address(start, end) or
\* row_address(start, end) makes exactly two bus writes: the opcode (CASET resp.
\* RASET) and then the four bytes start>>8, start&0xFF, (end-1)>>8, (end-1)&0xFF.
C1_RangeBytes ==
    \A op \in {"column_address", "row_address"} :
        (Called(op) /\ result = "Ok" /\ call.args[1] <= call.args[2]) =>
            LET w == BusWrites(trace)
            IN  /\ Len(w) = 2
                /\ IsOpcodeWrite(w[1], IF op = "column_address" THEN "CASET" ELSE "RASET")
                /\ IsDataWrite(w[2], ExpectedRange(call.args[1], call.args[2]))

C1_Witness ==
    /\ Called("row_address")
    /\ call.args = <<300, 320>>
    /\ result = "Ok"
    /\ BusWrites(trace)[2].bytes = <<1, 44, 1, 63>>

---------------------------------------------------------------------------
(* C2 *)

\* C2: for start > end, column_address performs no bus write and returns
\* InvalidColumnAddress, and row_address performs no bus write and returns
\* InvalidRowAddress.
C2_InvalidRangeRejected ==
    /\ (Called("column_address") /\ call.args[1] > call.args[2]) =>
           (BusWrites(trace) = <<>> /\ result = "InvalidColumnAddress")
    /\ (Called("row_address") /\ call.args[1] > call.args[2]) =>
           (BusWrites(trace) = <<>> /\ result = "InvalidRowAddress")

---------------------------------------------------------------------------
(* C3 *)

InvalidWindow(w) == w[1] > w[3] \/ w[2] > w[4]

\* C3: address_window(xs, rs, xe, re) with xs > xe or rs > re returns an
\* invalid-address error with no pin write and no bus write, and leaves the pin
\* levels and the engine as they were before the call.
C3_InvalidWindowNoTraffic ==
    [][(call'.op = "address_window" /\ InvalidWindow(call'.args)) =>
            /\ result' \in {"InvalidColumnAddress", "InvalidRowAddress"}
            /\ trace' = <<>>
            /\ UNCHANGED <<phase, has_cs, width, height, rotate, cs, dc, rst>>]_vars

C3_Witness ==
    /\ Called("address_window")
    /\ call.args = <<0, 1, 240, 0>>
    /\ result # "Ok"
    /\ trace = <<>>
    /\ rst = "high"

---------------------------------------------------------------------------
(* C4 *)

\* C4: the invalid-address error names the offending axis: address_window with
\* xs <= xe and rs > re returns InvalidRowAddress, with xs > xe InvalidColumnAddress.
C4_ErrorNamesAxis ==
    Called("address_window") =>
        /\ (call.args[1] <= call.args[3] /\ call.args[2] > call.args[4]) =>
               result = "InvalidRowAddress"
        /\ call.args[1] > call.args[3] => result = "InvalidColumnAddress"

---------------------------------------------------------------------------
(* C5 *)

\* C5: a successful address_window(xs, rs, xe, re) makes exactly these bus
\* writes, in this order: opcode CASET, the four column bytes, opcode RASET, the
\* four row bytes, opcode RAMWR (no parameter bytes); for (0, 0, 240, 320) the
\* column bytes are 00 00 00 EF and the row bytes 00 00 01 3F.
C5_WindowSequence ==
    (Called("address_window") /\ result = "Ok") =>
        LET w == BusWrites(trace)
            a == call.args
        IN  /\ Len(w) = 5
            /\ IsOpcodeWrite(w[1], "CASET")
            /\ IsDataWrite(w[2], ExpectedRange(a[1], a[3]))
            /\ IsOpcodeWrite(w[3], "RASET")
            /\ IsDataWrite(w[4], ExpectedRange(a[2], a[4]))
            /\ IsOpcodeWrite(w[5], "RAMWR")
            /\ a = <<0, 0, 240, 320>> =>
                   (w[2].bytes = <<0, 0, 0, 239>> /\ w[4].bytes = <<0, 0, 1, 63>>)

C5_Witness ==
    /\ Called("address_window")
    /\ call.args = <<0, 0, 240, 320>>
    /\ result = "Ok"
    /\ Len(BusWrites(trace)) = 5

---------------------------------------------------------------------------
(* C6 *)

\* C6: for 0 <= x < width and 0 <= y < height, transfer_x_y returns (x, y)
\* under rotation none, (width - x, y) under 90, (x, height - y) under 180 and
\* (width - x, height - y) under 270, the differences being exact (no wraparound).
C6_TransformExact ==
    (Called("transfer_x_y") /\ call.args[1] < width /\ call.args[2] < height) =>
        ret = ExpectedTransform(rotate, width, height, call.args[1], call.args[2])

C6_Witness ==
    /\ Called("transfer_x_y")
    /\ rotate = Rotate270
    /\ width = 240
    /\ height = 320
    /\ call.args = <<1, 2>>
    /\ ret = <<239, 318>>

---------------------------------------------------------------------------
(* C7 *)

\* the last opcode write among the bus writes w
LastOpcode(w) ==
    CHOOSE i \in 1..Len(w) : w[i].site = "opcode" /\ \A j \in (i + 1)..Len(w) : w[j].site # "opcode"

\* the bus writes of a pixels call after the memory-write trigger (opcode RAMWR
\* and its zero-length parameter write)
PayloadWrites(tr) ==
    LET w == BusWrites(tr)
    IN  SubSeq(w, LastOpcode(w) + 2, Len(w))

\* byte j of the colors, each as two bytes, high byte first
Encoded(colors, j) ==
    IF j % 2 = 1 THEN colors[(j + 1) \div 2] \div 256 ELSE colors[j \div 2] % 256

\* where byte j comes from when a stream of len bytes is cut into blocks of b
\* bytes (the last one shorter) and the blocks are put in reverse order
RevIndex(len, b, j) ==
    LET nb == (len + b - 1) \div b
        last == len - (nb - 1) * b
    IN  IF j <= last THEN (nb - 1) * b + j
        ELSE (nb - 2 - ((j - last - 1) \div b)) * b + ((j - last - 1) % b) + 1

\* C7: a successful pixels call with N colors makes exactly ceil(2N / 4096)
\* payload bus writes after the memory-write trigger, each of at most 4096 bytes
\* and all but the last of exactly 4096, whose concatenation is the N colors as
\* two bytes each, high byte first, in the caller's order, or that stream with its
\* blocks (of width * width bytes) in reverse order.
C7_PayloadChunks ==
    (Called("pixels") /\ result = "Ok") =>
        LET w == BusWrites(trace)
            t == LastOpcode(w)
            pay == PayloadWrites(trace)
            len == 2 * Len(call.data)
            at(k, i) == (k - 1) * ChunkSize + i
        IN  /\ IsOpcodeWrite(w[t], "RAMWR")
            /\ IsDataWrite(w[t + 1], <<>>)
            /\ Len(pay) = (len + ChunkSize - 1) \div ChunkSize
            /\ \A k \in 1..Len(pay) :
                   /\ pay[k].site = "data"
                   /\ Len(pay[k].bytes) = IF k < Len(pay) THEN ChunkSize
                                          ELSE len - (k - 1) * ChunkSize
            /\ \/ \A k \in 1..Len(pay) : \A i \in 1..Len(pay[k].bytes) :
                      pay[k].bytes[i] = Encoded(call.data, at(k, i))
               \/ \A k \in 1..Len(pay) : \A i \in 1..Len(pay[k].bytes) :
                      pay[k].bytes[i] = Encoded(call.data, RevIndex(len, width * width, at(k, i)))

C7_Witness ==
    /\ Called("pixels")
    /\ result = "Ok"
    /\ width = 2
    /\ Len(call.data) = ChunkSize + 1
    /\ Len(PayloadWrites(trace)) = 3
    /\ Len(PayloadWrites(trace)[3].bytes) = 2

---------------------------------------------------------------------------
(* C8 *)

\* C8: pixel(x, y, color) sets the address window of the single point: the wire
\* column range is px..px and the wire row range is py..py, (px, py) being the
\* physical coordinate of (x, y), and then sends the two color bytes, high byte
\* first; pixel(0, 0, 0xF800) under rotation none sends column bytes 00 00 00 00,
\* row bytes 00 00 00 00 and data bytes F8 00.
C8_PixelWindow ==
    (Called("pixel") /\ result = "Ok") =>
        LET w == BusWrites(trace)
            p == ExpectedTransform(rotate, width, height, call.args[1], call.args[2])
        IN  /\ IsOpcodeWrite(w[1], "CASET")
            /\ IsDataWrite(w[2], WordBytes(p[1]) \o WordBytes(p[1]))
            /\ IsOpcodeWrite(w[3], "RASET")
            /\ IsDataWrite(w[4], WordBytes(p[2]) \o WordBytes(p[2]))
            /\ IsDataWrite(w[Len(w)], WordBytes(call.args[3]))

---------------------------------------------------------------------------
(* C9 *)

\* the public operations that are one command call with parameters present
ParamCommands ==
    {"porch_setting", "gate_control", "vcoms_setting", "memory_access_control",
     "mem_write", "column_address", "row_address", "color_mode"}

\* the public operations that are one command call without parameters
NoParamCommands ==
    {"partial_display_mode", "normal_mode", "inversion_off", "inversion_on",
     "display_off", "display_on", "idle_off", "idle_on", "sleep_in", "sleep_out",
     "soft_reset"}

\* event i of tr is preceded by a successful write of level on pin
DrivenBefore(tr, i, pin, level) ==
    \E j \in 1..(i - 1) : tr[j] = PinEv(pin, level, TRUE)

\* C9: on an engine that owns chip-select, a successful command with parameters
\* present (an empty slice included) ends with chip-select high, and one without
\* parameters ends with chip-select low and data/command low; the opcode is
\* written after chip-select and data/command were driven low, and parameters
\* only after data/command was driven high.
C9_CommandFraming ==
    (has_cs /\ result = "Ok" /\ Called(call.op)
        /\ call.op \in ParamCommands \cup NoParamCommands) =>
        /\ call.op \in ParamCommands => cs = "high"
        /\ call.op \in NoParamCommands => (cs = "low" /\ dc = "low")
        /\ Len(SelectSeq(trace, LAMBDA e : e.kind = "spi" /\ e.site = "opcode")) = 1
        /\ Len(SelectSeq(trace, LAMBDA e : e.kind = "spi" /\ e.site = "data"))
               = IF call.op \in ParamCommands THEN 1 ELSE 0
        /\ \A i \in 1..Len(trace) :
               /\ (trace[i].kind = "spi" /\ trace[i].site = "opcode") =>
                      /\ DrivenBefore(trace, i, "cs", "low")
                      /\ DrivenBefore(trace, i, "dc", "low")
                      /\ trace[i].cs = "low"
                      /\ trace[i].dc = "low"
               /\ (trace[i].kind = "spi" /\ trace[i].site = "data") =>
                      /\ DrivenBefore(trace, i, "dc", "high")
                      /\ trace[i].dc = "high"

C9_Witness ==
    /\ Called("mem_write")
    /\ call.data = <<>>
    /\ has_cs
    /\ result = "Ok"
    /\ cs = "high"
    /\ Len(BusWrites(trace)) = 2

---------------------------------------------------------------------------
(* C10 *)

\* C10: every bus write that is not an opcode byte (parameter bytes, pixel
\* payload) is made while the last level driven on data/command is high.
C10_DataWithDcHigh ==
    \A i \in 1..Len(trace) :
        (trace[i].kind = "spi" /\ trace[i].site = "data") => trace[i].dc = "high"

---------------------------------------------------------------------------
(* C11 *)

\* C11: every bus write of an opcode is exactly one byte, the opcode's value,
\* and is made while the last level driven on data/command is low.
C11_OpcodeOneByteDcLow ==
    \A i \in 1..Len(trace) :
        (trace[i].kind = "spi" /\ trace[i].site = "opcode")
            => /\ Len(trace[i].bytes) = 1
               /\ trace[i].bytes = <<cmd_value(trace[i].cmd)>>
               /\ trace[i].dc = "low"
               /\ DrivenBefore(trace, i, "dc", "low")

\* an opcode goes out after an earlier command of the same call left
\* data/command high
C11_Witness ==
    /\ Called("address_window")
    /\ result = "Ok"
    /\ \E i, j \in 1..Len(trace) :
         /\ i < j
         /\ trace[i] = PinEv("dc", "high", TRUE)
         /\ IsOpcodeWrite(trace[j], "RASET")
         /\ trace[j].dc = "low"

---------------------------------------------------------------------------
(* C12 *)

\* the events of a reset pulse, on an engine that owns chip-select or not
ResetPulse(owned) ==
    (IF owned THEN <<PinEv("cs", "high", TRUE)>> ELSE <<>>)
    \o <<DelayEv(1), PinEv("rst", "low", TRUE), DelayEv(1),
         PinEv("rst", "high", TRUE), DelayEv(120)>>

\* C12: a successful hard_reset performs exactly chip-select high (only if
\* owned), delay 1 ms, reset low, delay 1 ms, reset high, delay 120 ms, and no
\* bus write; it ends with reset high and, if chip-select is owned, chip-select
\* high.
C12_HardResetSequence ==
    (Called("hard_reset") /\ result = "Ok") =>
        /\ trace = ResetPulse(has_cs)
        /\ BusWrites(trace) = <<>>
        /\ rst = "high"
        /\ has_cs => cs = "high"

\* a reset of an engine that owns chip-select
C12_Witness ==
    /\ Called("hard_reset")
    /\ result = "Ok"
    /\ has_cs
    /\ Len(trace) = 6
    /\ trace[1] = PinEv("cs", "high", TRUE)

---------------------------------------------------------------------------
(* C13 *)

\* the commands of the opcode writes of a trace, in order
OpcodesOf(tr) ==
    LET w == SelectSeq(tr, LAMBDA e : e.kind = "spi" /\ e.site = "opcode")
    IN  [i \in 1..Len(w) |-> w[i].cmd]

\* the order of init's opcodes
InitOpcodes ==
    <<"MADCTL", "COLMOD", "INVON", "CASET", "RASET", "GCTRL", "VCOMS", "LCMCTRL",
      "VDVVRHEN", "VRHS", "VDVS", "FRCTRL2", "PWCTRL1", "E0", "E1", "INVON",
      "SLPOUT", "DISPON">>

\* C13: a successful init completes the whole reset pulse (reset low, reset
\* high, 120 ms delay) before its first bus write, then writes its opcodes in a
\* fixed order that starts MADCTL, COLMOD, INVON and ends SLPOUT, DISPON; DISPON
\* is its last bus write.
C13_InitOrder ==
    (Called("init") /\ result = "Ok") =>
        LET n == Len(ResetPulse(has_cs))
            ops == OpcodesOf(trace)
            w == BusWrites(trace)
        IN  /\ Len(trace) > n
            /\ SubSeq(trace, 1, n) = ResetPulse(has_cs)
            /\ \A i \in 1..n : trace[i].kind # "spi"
            /\ ops = InitOpcodes
            /\ SubSeq(ops, 1, 3) = <<"MADCTL", "COLMOD", "INVON">>
            /\ SubSeq(ops, Len(ops) - 1, Len(ops)) = <<"SLPOUT", "DISPON">>
            /\ IsOpcodeWrite(w[Len(w)], "DISPON")
            /\ trace[Len(trace)] = w[Len(w)]

\* an init that ran to its end
C13_Witness ==
    /\ Called("init")
    /\ result = "Ok"
    /\ has_cs
    /\ IsOpcodeWrite(trace[Len(trace)], "DISPON")
    /\ Len(OpcodesOf(trace)) = 18

---------------------------------------------------------------------------
(* C14 *)

MultiStepOps ==
    {"hard_reset", "init", "address_window", "pixel", "pixels", "lcm_control",
     "sleep_in", "sleep_out", "mem_write"}

\* the operation run from the current state with no failing pin or bus operation
Unfailing(op, args, dat, overflow_checks) ==
    CASE op = "hard_reset"     -> hard_reset(Enter(0))
      [] op = "init"           -> init(Enter(0))
      [] op = "address_window" -> address_window(Enter(0), args[1], args[2], args[3], args[4])
      [] op = "pixel"          -> pixel(Enter(0), args[1], args[2], args[3])
      [] op = "pixels"         -> pixels(Enter(0), args[1], args[2], args[3], args[4], dat,
                                         overflow_checks)
      [] op = "lcm_control"    -> lcm_control(Enter(0))
      [] op = "sleep_in"       -> sleep_in(Enter(0))
      [] op = "sleep_out"      -> sleep_out(Enter(0))
      [] op = "mem_write"      -> mem_write(Enter(0), dat)

\* a failed pin or bus write is the last event and decides the result
FailedLast(tr, res) ==
    /\ \A i \in 1..Len(tr) :
         ~tr[i].ok => /\ i = Len(tr)
                      /\ res = IF tr[i].kind = "pin" THEN "Pin" ELSE "Spi"
    /\ res \in {"Pin", "Spi"} => (tr # <<>> /\ ~tr[Len(tr)].ok)

\* the events of a failed call are those of the unfailing call up to the write
\* that failed, once each; a call without failure has all of them
Truncated(tr, res, full) ==
    IF res \in {"Pin", "Spi"}
    THEN LET k == Len(tr)
         IN  [tr EXCEPT ![k].ok = TRUE] = SubSeq(full.trace, 1, k)
    ELSE /\ tr = full.trace
         /\ res = IF full.err = "none" THEN "Ok" ELSE full.err

\* C14: in every multi-step operation (hard_reset, init, address_window, pixel,
\* pixels, lcm_control, sleep_in, sleep_out, command with parameters), when a
\* pin write or bus write fails, no later pin write, bus write or delay of that
\* operation is performed, nothing is retried, and the operation returns Pin
\* for a pin failure and Spi for a bus failure.
C14_FailureStops ==
    [][(phase = "live" /\ call'.op \in MultiStepOps) =>
            /\ FailedLast(trace', result')
            /\ \E overflow_checks \in BOOLEAN :
                 Truncated(trace', result',
                           Unfailing(call'.op, call'.args, call'.data, overflow_checks))]_vars

\* init fails at a bus write after the reset pulse and some commands
C14_Witness ==
    /\ Called("init")
    /\ result = "Spi"
    /\ has_cs
    /\ Len(trace) > Len(ResetPulse(TRUE)) + 7
    /\ ~trace[Len(trace)].ok
    /\ trace[Len(trace)].kind = "spi"

---------------------------------------------------------------------------
(* C15 *)

\* C15: release on an engine that owns chip-select performs exactly one pin
\* write, chip-select high, and no bus write, and returns the bus handle and a
\* configuration that still holds the data/command and reset handles; on an
\* engine without chip-select it performs no pin write and no bus write; after
\* release the engine produces no further event.
C15_ReleaseOnce ==
    [][/\ (phase = "live" /\ call'.op = "release") =>
            /\ has_cs => /\ Len(trace') = 1
                         /\ trace'[1] = PinEv("cs", "high", result' = "Ok")
            /\ ~has_cs => (trace' = <<>> /\ result' = "Ok")
            /\ result' = "Ok" =>
                 /\ ret'.spi = "spi"
                 /\ ST7789VConfig_release(ret'.cfg) = <<"dc", "rst">>
            /\ phase' = "released"
       /\ phase = "released" => UNCHANGED vars]_vars

\* an engine with chip-select, used and then released
C15_Witness ==
    /\ phase = "released"
    /\ has_cs
    /\ result = "Ok"
    /\ trace = <<PinEv("cs", "high", TRUE)>>
    /\ dc = "high"
    /\ ret.cfg.dc = "dc"

---------------------------------------------------------------------------
(* C16 *)

Constructors == {"new", "with_cs", "with_config"}

\* C16: construction with a chip-select line (with_cs, or with_config whose
\* config holds one) drives chip-select low exactly once and performs no other
\* pin or bus operation, and fails with Pin without yielding an engine if that
\* write fails; construction without chip-select (new, or with_config without
\* one) performs no pin or bus operation; every constructor yields an engine
\* whose rotation is Rotate0 and whose width and height are the given values.
C16_Construction ==
    (call.op \in Constructors /\ phase \in {"live", "failed"}) =>
        /\ call.op = "new" => ~has_cs
        /\ call.op = "with_cs" => has_cs
        /\ has_cs => /\ Len(trace) = 1
                     /\ trace[1] = PinEv("cs", "low", result = "Ok")
        /\ ~has_cs => (trace = <<>> /\ result = "Ok")
        /\ result \in {"Ok", "Pin"}
        /\ result = "Pin" <=> phase = "failed"
        /\ result = "Ok" =>
             /\ phase = "live"
             /\ rotate = Rotate0
             /\ width = call.args[1]
             /\ height = call.args[2]
             /\ has_cs => cs = "low"

\* with_config with a chip-select line whose write fails
C16_Witness ==
    /\ call.op = "with_config"
    /\ has_cs
    /\ phase = "failed"
    /\ result = "Pin"
    /\ trace = <<PinEv("cs", "low", FALSE)>>

---------------------------------------------------------------------------
(* C17 *)

\* C17: set_rotate(r) only stores r as the current rotation: it performs no pin
\* write, no bus write and no delay, never returns an error, and leaves width,
\* height, the pin levels and the last value written to MADCTL (there is no
\* write to it) unchanged.
C17_SetRotateStoresOnly ==
    [][(phase = "live" /\ call'.op = "set_rotate") =>
            /\ rotate' = call'.args[1]
            /\ trace' = <<>>
            /\ \A i \in 1..Len(trace') : ~IsOpcodeWrite(trace'[i], "MADCTL")
            /\ result' = "Ok"
            /\ UNCHANGED <<phase, has_cs, width, height, cs, dc, rst>>]_vars

\* the rotation changes on an engine whose lines have been driven
C17_Witness ==
    /\ Called("set_rotate")
    /\ rotate = Rotate270
    /\ trace = <<>>
    /\ result = "Ok"
    /\ dc = "high"
    /\ rst = "high"

---------------------------------------------------------------------------
(* C18 *)

\* the events of a command without parameters and of one with parameters, on an
\* engine that owns chip-select
IsBareCommand(tr, cmd) ==
    /\ Len(tr) = 3
    /\ tr[1] = PinEv("cs", "low", TRUE)
    /\ tr[2] = PinEv("dc", "low", TRUE)
    /\ IsOpcodeWrite(tr[3], cmd)

IsParamCommand(tr, cmd, len) ==
    /\ Len(tr) = 7
    /\ IsBareCommand(SubSeq(tr, 1, 3), cmd)
    /\ tr[4] = PinEv("cs", "low", TRUE)
    /\ tr[5] = PinEv("dc", "high", TRUE)
    /\ tr[6].kind = "spi" /\ tr[6].site = "data" /\ Len(tr[6].bytes) = len
    /\ tr[7] = PinEv("cs", "high", TRUE)

\* C18: a successful pixels call on an engine that owns chip-select produces
\* its events in this order: the address-window commands (CASET, RASET, RAMWR),
\* then a memory-write trigger with zero parameter bytes, then chip-select low
\* and data/command high, then all payload chunk writes, then chip-select high;
\* chip-select is low and data/command is high during every payload write and
\* chip-select is high when the call returns.
C18_PixelsOrder ==
    (Called("pixels") /\ has_cs /\ result = "Ok") =>
        LET k == (2 * Len(call.data) + ChunkSize - 1) \div ChunkSize
            n == Len(trace)
        IN  /\ n = 27 + k
            /\ IsParamCommand(SubSeq(trace, 1, 7), "CASET", 4)
            /\ IsParamCommand(SubSeq(trace, 8, 14), "RASET", 4)
            /\ IsBareCommand(SubSeq(trace, 15, 17), "RAMWR")
            /\ IsParamCommand(SubSeq(trace, 18, 24), "RAMWR", 0)
            /\ trace[25] = PinEv("cs", "low", TRUE)
            /\ trace[26] = PinEv("dc", "high", TRUE)
            /\ \A i \in 27..(n - 1) :
                 /\ trace[i].kind = "spi"
                 /\ trace[i].site = "data"
                 /\ trace[i].bytes # <<>>
                 /\ trace[i].cs = "low"
                 /\ trace[i].dc = "high"
            /\ trace[n] = PinEv("cs", "high", TRUE)
            /\ cs = "high"

\* a payload of more than two bus chunks on an engine with chip-select
C18_Witness ==
    /\ Called("pixels")
    /\ has_cs
    /\ result = "Ok"
    /\ Len(call.data) = 2 * (ChunkSize \div 2) + 1
    /\ Len(trace) = 30
    /\ trace[29].cs = "low"

---------------------------------------------------------------------------
(* C19 *)

\* C19: the block reversal of the pixel byte stream in pixels is gated on the
\* stored rotation: under Rotate0, for every N, the concatenated payload bytes
\* are the colors as two bytes each, high byte first, in the caller's order,
\* with no block reordering.
C19_PlainOrderUnderRotate0 ==
    (Called("pixels") /\ result = "Ok" /\ rotate = Rotate0) =>
        LET pay == PayloadWrites(trace)
        IN  \A k \in 1..Len(pay) : \A i \in 1..Len(pay[k].bytes) :
                pay[k].bytes[i] = Encoded(call.data, (k - 1) * ChunkSize + i)

---------------------------------------------------------------------------
(* C20 *)

\* the events of a call that sends cmd and then waits ms
SettledCommand(tr, cmd, ms) ==
    LET n == Len(tr)
    IN  /\ n >= 2
        /\ tr[n] = DelayEv(ms)
        /\ IsOpcodeWrite(tr[n - 1], cmd) /\ tr[n - 1].ok
        /\ Len(BusWrites(tr)) = 1
        /\ \A i \in 1..(n - 1) : tr[i].kind # "delay"

\* C20: sleep_in writes opcode SLPIN and then delays 5 ms, and sleep_out writes
\* opcode SLPOUT and then delays 120 ms; the delay comes after the command's bus
\* write completed, and there is none when the command fails.
C20_SleepSettle ==
    /\ (Called("sleep_in") /\ result = "Ok") => SettledCommand(trace, "SLPIN", 5)
    /\ (Called("sleep_out") /\ result = "Ok") => SettledCommand(trace, "SLPOUT", 120)
    /\ ((Called("sleep_in") \/ Called("sleep_out")) /\ result # "Ok") =>
            /\ result \in {"Pin", "Spi"}
            /\ \A i \in 1..Len(trace) : trace[i].kind # "delay"

\* sleep_in whose bus write fails
C20_Witness ==
    /\ Called("sleep_in")
    /\ result = "Spi"
    /\ trace # <<>>
    /\ trace[Len(trace)].kind = "spi"
    /\ trace[Len(trace)].cmd = "SLPIN"
    /\ ~trace[Len(trace)].ok

---------------------------------------------------------------------------
(* C21 *)

Fields ==
    {"color_order", "latch_order", "line_order", "page_order", "page_column_order",
     "column_order"}

\* the bit of each field
FieldBit(field) ==
    CASE field = "color_order"       -> 8
      [] field = "latch_order"       -> 4
      [] field = "line_order"        -> 16
      [] field = "page_order"        -> 128
      [] field = "page_column_order" -> 32
      [] field = "column_order"      -> 64

\* bit (a power of two) is set in the byte b
HasBit(b, bit) == (b \div bit) % 2 = 1

\* C21: MemAccCtrlConfig::value is the bitwise OR of the six field patterns, is
\* total and independent of the order in which the fields were set, and the
\* six fields occupy pairwise disjoint bits (0x08, 0x04, 0x10, 0x80, 0x20,
\* 0x40), so two configurations give the same byte only if all six fields are
\* equal, and bits 0 and 1 are always zero.
C21_ValueComposition ==
    call.op = "value" =>
        LET c == call.args[1]
            b == ret[1]
        IN  /\ b \in 0..255
            /\ \A f \in Fields :
                 /\ field_value(f, c[f]) \in {0, FieldBit(f)}
                 /\ HasBit(b, FieldBit(f)) <=> field_value(f, c[f]) = FieldBit(f)
                 /\ \E v, w \in Variants(f) : field_value(f, v) # field_value(f, w)
            /\ \A f, g \in Fields : f # g => FieldBit(f) # FieldBit(g)
            /\ ~HasBit(b, 1) /\ ~HasBit(b, 2)
            /\ \A f1 \in Variants("color_order"), f2 \in Variants("latch_order"),
                  f3 \in Variants("line_order"), f4 \in Variants("page_order"),
                  f5 \in Variants("page_column_order"), f6 \in Variants("column_order") :
                 LET c2 == [color_order |-> f1, latch_order |-> f2, line_order |-> f3,
                            page_order |-> f4, page_column_order |-> f5,
                            column_order |-> f6]
                 IN  MemAccCtrlConfig_value(c2) = b => c2 = c

\* every bit set, by setters on top of a preset
C21_Witness ==
    /\ call.op = "value"
    /\ ret = <<252>>
    /\ call.args[1].color_order = "Bgr"

---------------------------------------------------------------------------
(* C22 *)

\* the preset that carries the name of the rotation
PresetOf(r) ==
    CASE r = Rotate0   -> rotate_0
      [] r = Rotate90  -> rotate_90
      [] r = Rotate180 -> rotate_180
      [] r = Rotate270 -> rotate_270

\* C22: the four rotation presets are consistent with the coordinate
\* transform: the preset of rotation r sets the reversed column order (bit MX)
\* iff the transform of r replaces x by width - x, and the reversed page order
\* (bit MY) iff it replaces y by height - y.
C22_PresetsMatchTransform ==
    (/\ Called("transfer_x_y")
     /\ call.args[1] < width /\ width - call.args[1] # call.args[1]
     /\ call.args[2] < height /\ height - call.args[2] # call.args[2]) =>
        LET p == PresetOf(rotate)
        IN  /\ field_value("column_order", p.column_order) # 0
                <=> ret[1] = width - call.args[1]
            /\ field_value("page_order", p.page_order) # 0
                <=> ret[2] = height - call.args[2]

---------------------------------------------------------------------------
(* C23 *)

\* C23: a zero-length range ending at 0 is rejected or special-cased rather
\* than wrapped: column_address(0, 0), row_address(0, 0) and
\* address_window(0, 0, 0, 0) never put the end bytes FF FF on the bus.
C23_NoWrappedEnd ==
    (/\ Called(call.op)
     /\ \/ call.op \in {"column_address", "row_address"} /\ call.args = <<0, 0>>
        \/ call.op = "address_window" /\ call.args = <<0, 0, 0, 0>>) =>
        \A i \in 1..Len(trace) :
            (trace[i].kind = "spi" /\ trace[i].site = "data" /\ Len(trace[i].bytes) = 4)
                => SubSeq(trace[i].bytes, 3, 4) # <<255, 255>>

---------------------------------------------------------------------------
(* C24 *)

RECURSIVE BytesUntilOpcode(_, _)
\* the bytes of the data writes w[i], w[i+1], .. up to the next opcode write
BytesUntilOpcode(w, i) ==
    IF i > Len(w) \/ w[i].site = "opcode" THEN <<>>
    ELSE w[i].bytes \o BytesUntilOpcode(w, i + 1)

\* the parameter bytes that follow the first write of opcode cmd
ParamsAfter(tr, cmd) ==
    LET w == BusWrites(tr)
        i == CHOOSE k \in 1..Len(w) :
                 /\ IsOpcodeWrite(w[k], cmd)
                 /\ \A j \in 1..(k - 1) : ~IsOpcodeWrite(w[j], cmd)
    IN  BytesUntilOpcode(w, i + 1)

\* C24: during init, CASET and RASET are each followed by exactly four
\* parameter bytes before the next opcode, and these encode the full frame of
\* the engine's size: columns 0 .. width-1 and rows 0 .. height-1.
C24_InitFullFrame ==
    (Called("init") /\ result = "Ok") =>
        /\ ParamsAfter(trace, "CASET") = WordBytes(0) \o WordBytes(width - 1)
        /\ ParamsAfter(trace, "RASET") = WordBytes(0) \o WordBytes(height - 1)

---------------------------------------------------------------------------
(* C25 *)

\* C25: on an engine that owns chip-select, every bus write (opcode,
\* parameters or pixel payload) of every operation is made while the last
\* level driven on chip-select is low.
C25_BusWritesSelected ==
    has_cs =>
        \A i \in 1..Len(trace) : trace[i].kind = "spi" => trace[i].cs = "low"

\* an opcode goes out after an earlier command of the same call raised
\* chip-select
C25_Witness ==
    /\ Called("address_window")
    /\ has_cs
    /\ result = "Ok"
    /\ \E i, j \in 1..Len(trace) :
         /\ i < j
         /\ trace[i] = PinEv("cs", "high", TRUE)
         /\ IsOpcodeWrite(trace[j], "RAMWR")
         /\ trace[j].cs = "low"

---------------------------------------------------------------------------
(* C26 *)

\* C26: for every rotation, the coordinate transform maps the panel onto
\* itself: for 0 <= x < width and 0 <= y < height the physical coordinate
\* returned by transfer_x_y has 0 <= px < width and 0 <= py < height.
C26_TransformInPanel ==
    (Called("transfer_x_y") /\ call.args[1] < width /\ call.args[2] < height) =>
        /\ ret[1] \in 0..(width - 1)
        /\ ret[2] \in 0..(height - 1)

---------------------------------------------------------------------------
(* C27 *)

\* C27: pixels never fails with InvalidColumnAddress or InvalidRowAddress: for
\* every pair of 16-bit corners, in either order, and every rotation, the
\* window passed to address_window after the per-axis min/max has start <= end
\* on both axes, so the only errors that pixels returns are Pin and Spi.
C27_PixelsWindowValid ==
    Called("pixels") =>
        /\ result \notin {"InvalidColumnAddress", "InvalidRowAddress"}
        /\ result \in {"Ok", "Pin", "Spi", "panic"}
        /\ result = "Ok" => Len(OpcodesOf(trace)) = 4

\* corners given in decreasing order, mirrored by the rotation
C27_Witness ==
    /\ Called("pixels")
    /\ rotate = Rotate180
    /\ call.args = <<240, 0, 0, U16 - 1>>
    /\ result = "Ok"

---------------------------------------------------------------------------
(* C28 *)

\* C28: for every 16-bit panel width >= 1, the reversal block length that
\* pixels computes as width * width in 16-bit arithmetic does not overflow and
\* is at least 1, so the chunking into reversal blocks is well defined for
\* every constructible engine.
C28_BlockLengthDefined ==
    (Called("pixels") /\ width >= 1) =>
        /\ width * width < U16
        /\ \A overflow_checks \in BOOLEAN : block_len(Enter(0), overflow_checks) >= 1
        /\ result # "panic"

---------------------------------------------------------------------------
(* C29 *)

\* C29: after every successful init, in any sequence of operations (set_rotate
\* calls before init included), the stored rotation agrees with the
\* orientation byte that init wrote to MADCTL (0x00, the byte of the rotate_0
\* preset): the stored rotation is Rotate0.
C29_RotationAgreesAfterInit ==
    (Called("init") /\ result = "Ok") =>
        /\ ParamsAfter(trace, "MADCTL") = <<MemAccCtrlConfig_value(rotate_0)>>
        /\ rotate = Rotate0

====
